---- MODULE Spec2Model ----
(***************************************************************************)
(* CallingTrack: the calling lifecycle (callings/models.py, forms.py,      *)
(* views.py).  The store is the table of Calling rows; every action is one *)
(* request handler (or one ORM call of the test fixtures) run to its end.  *)
(* The permission policy (callings/permissions.py), the audit table        *)
(* CallingHistory and the two CSV import commands                          *)
(* (callings/management/commands) act on the same store.                   *)
(*                                                                         *)
(* Dates are the integers 1..MaxDate, NoDate (0) is Python's None.  A text *)
(* field that was never set, or was submitted blank, is NoText.            *)
(***************************************************************************)
EXTENDS Integers, Sequences, FiniteSets, TLC

VARIABLES callings, last, user, history, store, imp, auth_group,
          parent_unit, organization_unit, requests

vars == <<callings, last, user, history, store, imp, auth_group,
          parent_unit, organization_unit, requests>>

\* what a request handler of the calling views never writes: the session's
\* user, the CallingHistory table, the Unit/Organization/Position/Member
\* tables and the state of an import command
beside_callings ==
    <<user, history, store, imp, auth_group, parent_unit, organization_unit,
      requests>>

\* ------------------------------------------------------------------ bounds
MaxDate == 2

MaxCallings == 1

MaxApprovalCallings == 1

MaxHolderCallings == 2

MaxAccessCallings == 1

MaxHistory == 1

MaxRows == 2
\* grants an administrator adds beyond the configuration
MaxGrants == 2
\* callings stored while the reference data is edited
MaxReferenceCallings == 1
\* data rows of a file imported between form operations
MaxMixedRows == 1
\* imports run between form operations
MaxMixedRuns == 3
\* callings stored while requests run side by side
MaxConcurrentCallings == 1

\* ------------------------------------------------------------ value domains
NoDate == 0

Dates == 1..MaxDate

OptDates == 0..MaxDate

NoText == ""

NoteTexts == {"end of term"}

Units == {"ward"}

Positions == {"president", "teacher"}

Members == {"jane", "john"}

\* Calling.STATUS_CHOICES
STATUS_CHOICES == {"IN_PROGRESS", "COMPLETED", "CANCELLED", "ON_HOLD"}

\* Calling.CALLING_STATUS_CHOICES
CALLING_STATUS_CHOICES == {"ACTIVE", "RELEASED", "PENDING"}

\* status strings the fixtures and CallingLCRUpdateView store (choices are
\* not enforced by Model.save)
FixtureStatuses == {"PENDING", "CALLED"}

\* the new_status path components CallingUpdateStatusView is tried with
UrlStatuses == STATUS_CHOICES \cup {"PENDING", "RELEASED"}

\* --------------------------------------------------------------- the model
\* class Calling: the fields of a row and their defaults
NewCalling(unit, position, member) ==
    [ unit |-> unit, position |-> position, member |-> member,
      status |-> "IN_PROGRESS", calling_status |-> "ACTIVE",
      date_called |-> NoDate, date_sustained |-> NoDate,
      date_set_apart |-> NoDate, date_released |-> NoDate,
      presidency_approved |-> NoDate, lcr_updated |-> FALSE,
      release_notes |-> NoText ]

\* a save() that moves every approved calling to APPROVED, whatever its status
Calling_save_always_approves(table, pk, inst) ==
    LET row == IF inst.presidency_approved # NoDate
               THEN [inst EXCEPT !.status = "APPROVED"] ELSE inst
    IN  IF pk \in DOMAIN table THEN [table EXCEPT ![pk] = row]
        ELSE Append(table, row)

\* a save() that moves an approved calling one status further on every save
Calling_save_advancing(table, pk, inst) ==
    LET row == IF inst.presidency_approved = NoDate THEN inst
               ELSE IF inst.status = "PENDING"
               THEN [inst EXCEPT !.status = "APPROVED"]
               ELSE IF inst.status = "APPROVED"
               THEN [inst EXCEPT !.status = "CALLED"]
               ELSE inst
    IN  IF pk \in DOMAIN table THEN [table EXCEPT ![pk] = row]
        ELSE Append(table, row)

\* Calling has no save() of its own: Model.save writes the instance's field
\* values as they are (an insert when pk is past the end of the table).
Calling_save(table, pk, inst) ==
    IF pk \in DOMAIN table THEN [table EXCEPT ![pk] = inst]
    ELSE Append(table, inst)

\* what is left at the primary key of a row that was deleted: primary keys
\* are never given out again
Deleted == [deleted |-> TRUE]

Pks == {pk \in DOMAIN callings : callings[pk] # Deleted}

\* the outcome of the last request: which handler ran, on which row, with
\* which inputs, and whether it was accepted
NoRequest ==
    [ op |-> "none", pk |-> 0, ok |-> TRUE, errors |-> {},
      date |-> NoDate, today |-> NoDate, notes |-> NoText, status |-> "",
      repeat |-> FALSE, denied |-> FALSE ]

\* request.user: the superuser flag and the names of the user's groups
Superuser == [is_superuser |-> TRUE, groups |-> {}]

\* the Unit, Organization, Position and Member tables
EmptyStore == [units |-> {}, organizations |-> {}, positions |-> {},
               members |-> {}]

\* the counters of an import command
NoStats ==
    [ units_created |-> 0, organizations_created |-> 0,
      positions_created |-> 0, members_created |-> 0,
      callings_created |-> 0, callings_updated |-> 0,
      rows_processed |-> 0, rows_skipped |-> 0 ]

\* no import command has been started.  While one runs: the command, the
\* data rows of its file, the index of the next row, the carried unit and
\* organization and the counters; used records, for every row handled, the
\* unit and organization the row was given; settled is the store as the
\* first run over the file left it
NoImport ==
    [ phase |-> "idle", cmd |-> "", file |-> << >>, i |-> 1, run |-> 0,
      current_unit |-> NoText, current_org |-> NoText, stats |-> NoStats,
      used |-> << >>, settled |-> << >> ]

\* the requests in flight: each worker process holds the instance it read and
\* changed until it saves it; no request has arrived
RequestIds == {1, 2}

NoRequests == [r \in RequestIds |-> [phase |-> "idle"]]

Init ==
    /\ callings = << >>
    /\ last = NoRequest
    /\ user = Superuser
    /\ history = << >>
    /\ store = EmptyStore
    /\ imp = NoImport
    /\ auth_group = << >>
    /\ parent_unit = << >>
    /\ organization_unit = << >>
    /\ requests = NoRequests

\* ------------------------------------------------------------ CallingForm
\* what a CallingForm submission carries: the related rows, calling_status
\* and the four lifecycle dates (NoDate: the input was left empty)
FormData(units, positions, members, dates) ==
    [ unit : units, position : positions, member : members,
      calling_status : CALLING_STATUS_CHOICES,
      date_called : dates, date_sustained : dates,
      date_set_apart : dates, date_released : dates ]

\* CallingForm.clean without its set-apart/sustained comparison
CallingForm_clean_no_set_apart(data) ==
    LET date_called == data.date_called
        date_sustained == data.date_sustained
        date_released == data.date_released
        calling_status == data.calling_status
    IN  (IF date_called = NoDate THEN {"date_called"} ELSE {})
        \cup (IF date_sustained # NoDate /\ date_called # NoDate
                 /\ date_sustained < date_called
              THEN {"date_sustained"} ELSE {})
        \cup (IF date_released # NoDate /\ date_called # NoDate
                 /\ date_released < date_called
              THEN {"date_released"} ELSE {})
        \cup (IF calling_status = "ACTIVE" /\ date_released # NoDate
              THEN {"calling_status"} ELSE {})
        \cup (IF calling_status = "RELEASED" /\ date_released = NoDate
              THEN {"date_released"} ELSE {})

\* CallingForm.__init__ makes date_called required; CallingForm.clean then
\* reads cleaned_data, where a missing date is None, and adds the errors
CallingForm_clean(data) ==
    LET date_called == data.date_called
        date_sustained == data.date_sustained
        date_set_apart == data.date_set_apart
        date_released == data.date_released
        calling_status == data.calling_status
    IN  (IF date_called = NoDate THEN {"date_called"} ELSE {})
        \cup (IF date_sustained # NoDate /\ date_called # NoDate
                 /\ date_sustained < date_called
              THEN {"date_sustained"} ELSE {})
        \cup (IF date_set_apart # NoDate /\ date_sustained # NoDate
                 /\ date_set_apart < date_sustained
              THEN {"date_set_apart"} ELSE {})
        \cup (IF date_released # NoDate /\ date_called # NoDate
                 /\ date_released < date_called
              THEN {"date_released"} ELSE {})
        \cup (IF calling_status = "ACTIVE" /\ date_released # NoDate
              THEN {"calling_status"} ELSE {})
        \cup (IF calling_status = "RELEASED" /\ date_released = NoDate
              THEN {"date_released"} ELSE {})

\* ModelForm.save: the fields of CallingForm.Meta.fields are copied from the
\* cleaned data onto the instance, the others keep the instance's values
CallingForm_instance(inst, data) ==
    [inst EXCEPT !.unit = data.unit, !.position = data.position,
                 !.member = data.member,
                 !.calling_status = data.calling_status,
                 !.date_called = data.date_called,
                 !.date_sustained = data.date_sustained,
                 !.date_set_apart = data.date_set_apart,
                 !.date_released = data.date_released]

\* CallingCreateView (CreateView.post): form_valid saves a new row, form_invalid
\* re-renders the form and writes nothing
CallingCreateView(data, cap) ==
    LET errors == CallingForm_clean(data)
        pk == Len(callings) + 1
    IN  /\ errors = {} => Len(callings) < cap
        /\ callings' =
             IF errors = {}
             THEN Calling_save(callings, pk,
                    CallingForm_instance(
                      NewCalling(data.unit, data.position, data.member), data))
             ELSE callings
        /\ last' = ([NoRequest EXCEPT !.op = "create",
                             !.pk = IF errors = {} THEN pk ELSE 0,
                             !.ok = (errors = {}), !.errors = errors])
        /\ UNCHANGED beside_callings

\* CallingUpdateView (UpdateView.post) on the row pk
CallingUpdateView(pk, data) ==
    LET errors == CallingForm_clean(data)
    IN  /\ pk \in Pks
        /\ callings' =
             IF errors = {}
             THEN Calling_save(callings, pk,
                    CallingForm_instance(callings[pk], data))
             ELSE callings
        /\ last' = ([NoRequest EXCEPT !.op = "update", !.pk = pk,
                             !.ok = (errors = {}), !.errors = errors])
        /\ UNCHANGED beside_callings

\* ------------------------------------------------------ CallingReleaseForm
ReleaseData == [ date_released : OptDates, release_notes : NoteTexts \cup {NoText} ]

\* CallingReleaseForm with release_notes left optional, as the model field
\* (blank=True) declares it
CallingReleaseForm_clean_notes_optional(data) ==
    IF data.date_released = NoDate THEN {"date_released"} ELSE {}

\* CallingReleaseForm.__init__: both fields are required, nothing else is
\* validated
CallingReleaseForm_clean(data) ==
    (IF data.date_released = NoDate THEN {"date_released"} ELSE {})
    \cup (IF data.release_notes = NoText THEN {"release_notes"} ELSE {})

\* CallingReleaseView.form_valid: the form has put its two fields on the
\* instance; the view then sets calling_status and overwrites date_released
\* with the current date before the instance is saved
CallingReleaseView_form_valid(inst, data, today) ==
    [inst EXCEPT !.release_notes = data.release_notes,
                 !.calling_status = "RELEASED",
                 !.date_released = today]

CallingReleaseView(pk, data, today) ==
    LET errors == CallingReleaseForm_clean(data)
    IN  /\ pk \in Pks
        /\ callings' =
             IF errors = {}
             THEN Calling_save(callings, pk,
                    CallingReleaseView_form_valid(callings[pk], data, today))
             ELSE callings
        /\ last' = ([NoRequest EXCEPT !.op = "release", !.pk = pk,
                             !.ok = (errors = {}), !.errors = errors,
                             !.date = data.date_released,
                             !.notes = data.release_notes,
                             !.today = today])
        /\ UNCHANGED beside_callings

\* --------------------------------------------------- the form specification
\* one position and one member, every combination of the four dates
FormInputs == FormData(Units, {"president"}, {"jane"}, OptDates)

Create == \E data \in FormInputs : CallingCreateView(data, MaxCallings)

Update == \E pk \in Pks, data \in FormInputs : CallingUpdateView(pk, data)

Release ==
    \E pk \in Pks, data \in ReleaseData, today \in Dates :
        CallingReleaseView(pk, data, today)

Next == Create \/ Update \/ Release

Spec == Init /\ [][Next]_vars

\* ------------------------------------------------ the release specification
\* callings created with any called and released date, then released
ReleaseFormInputs ==
    { d \in FormData(Units, {"president"}, {"jane"}, OptDates) :
        d.date_sustained = NoDate /\ d.date_set_apart = NoDate }

ReleaseCreate ==
    \E data \in ReleaseFormInputs : CallingCreateView(data, MaxCallings)

NextRelease == ReleaseCreate \/ Release

SpecRelease == Init /\ [][NextRelease]_vars

\* ------------------------------------------------- the lifecycle date order
SustainedOrder(c) ==
    c.date_sustained = NoDate \/ c.date_called = NoDate
        \/ c.date_sustained >= c.date_called

SetApartOrder(c) ==
    c.date_set_apart = NoDate \/ c.date_sustained = NoDate
        \/ c.date_set_apart >= c.date_sustained

ReleasedOrder(c) ==
    c.date_released = NoDate \/ c.date_called = NoDate
        \/ c.date_released >= c.date_called

DateOrder(c) == SustainedOrder(c) /\ SetApartOrder(c) /\ ReleasedOrder(c)

IsFormRequest(r) == r.op \in {"create", "update"}

\* C2: a create or update through CallingForm is accepted only with dates in
\* order (the saved row carries the submitted dates, so a submission with
\* date_sustained < date_called, date_set_apart < date_sustained or
\* date_released < date_called is never accepted), and a rejected submission
\* leaves the table of callings exactly as it was.
C2_FormRejectsDateDisorder ==
    [][ IsFormRequest(last') =>
          /\ last'.ok => DateOrder(callings'[last'.pk])
          /\ last'.ok <=> last'.errors = {}
          /\ ~last'.ok => callings' = callings ]_vars

C2_Witness ==
    /\ last.op = "update" /\ ~last.ok
    /\ last.errors = {"date_set_apart"}
    /\ Len(callings) = 1

\* C3: every stored Calling has its dates in order: sustained not before
\* called, set apart not before sustained, released not before called (each
\* only when both dates are present).
C3_StoredDatesInOrder == \A pk \in Pks : DateOrder(callings[pk])

\* C4: a release without date_released or without release_notes is rejected
\* and leaves the Calling (its status, date_released and release_notes
\* included) as it was.
C4_ReleaseRequiresDateAndNotes ==
    [][ last'.op = "release" /\ (last'.date = NoDate \/ last'.notes = NoText)
          => /\ ~last'.ok
             /\ callings' = callings ]_vars

C4_Witness ==
    /\ last.op = "release" /\ ~last.ok
    /\ last.date # NoDate /\ last.notes = NoText
    /\ callings[last.pk].calling_status = "ACTIVE"
    /\ callings[last.pk].date_released = NoDate

\* C5: a release whose supplied date_released is earlier than the Calling's
\* date_called is rejected and the Calling is not marked released by it.
C5_ReleaseRejectsDateBeforeCalled ==
    ( /\ last.op = "release"
      /\ last.date # NoDate
      /\ callings[last.pk].date_called # NoDate
      /\ last.date < callings[last.pk].date_called )
    => ~last.ok

\* C6: after a successful release with supplied date_released d and
\* release_notes n the stored Calling is RELEASED, with date_released = d
\* and release_notes = n.
C6_ReleaseStoresSuppliedValues ==
    (last.op = "release" /\ last.ok) =>
        /\ callings[last.pk].calling_status = "RELEASED"
        /\ callings[last.pk].date_released = last.date
        /\ callings[last.pk].release_notes = last.notes

\* ------------------------------------------- status and approval operations
\* Calling.objects.create(unit=, position=, ..., status=, date_released=) as
\* the fixtures call it: the row is stored with the status it is given
Calling_objects_create(position, member, status, date_released, cap) ==
    LET pk == Len(callings) + 1
        inst == [NewCalling("ward", position, member) EXCEPT
                    !.status = status, !.date_released = date_released]
    IN  /\ Len(callings) < cap
        /\ callings' = Calling_save(callings, pk, inst)
        /\ last' = [NoRequest EXCEPT !.op = "objects.create", !.pk = pk,
                       !.status = status, !.date = date_released]
        /\ UNCHANGED beside_callings

\* calling.presidency_approved = approved_on; calling.save()
SetPresidencyApproved(pk, approved_on) ==
    /\ pk \in Pks
    /\ callings' = Calling_save(callings, pk,
                     [callings[pk] EXCEPT !.presidency_approved = approved_on])
    /\ last' = [NoRequest EXCEPT !.op = "approve", !.pk = pk,
                   !.date = approved_on,
                   !.repeat = (last.op = "approve" /\ last.pk = pk
                                 /\ last.date = approved_on)]
    /\ UNCHANGED beside_callings

\* calling.save() with no field changed
CallingSave(pk) ==
    /\ pk \in Pks
    /\ callings' = Calling_save(callings, pk, callings[pk])
    /\ last' = [NoRequest EXCEPT !.op = "save", !.pk = pk]
    /\ UNCHANGED beside_callings

\* an update_status that refuses to leave COMPLETED and CANCELLED
CallingUpdateStatusView_guarding_terminal(pk, new_status) ==
    LET valid_statuses ==
            IF callings[pk].status \in {"COMPLETED", "CANCELLED"}
            THEN {callings[pk].status} ELSE STATUS_CHOICES
    IN  /\ pk \in Pks
        /\ callings' =
             IF new_status \notin valid_statuses THEN callings
             ELSE Calling_save(callings, pk,
                    [callings[pk] EXCEPT !.status = new_status])
        /\ last' = [NoRequest EXCEPT !.op = "update_status", !.pk = pk,
                       !.ok = (new_status \in valid_statuses),
                       !.status = new_status]
        /\ UNCHANGED beside_callings

\* CallingUpdateStatusView.update_status: a new_status outside
\* Calling.STATUS_CHOICES is answered with an error message and no write
CallingUpdateStatusView(pk, new_status) ==
    LET valid_statuses == STATUS_CHOICES
    IN  /\ pk \in Pks
        /\ callings' =
             IF new_status \notin valid_statuses THEN callings
             ELSE Calling_save(callings, pk,
                    [callings[pk] EXCEPT !.status = new_status])
        /\ last' = [NoRequest EXCEPT !.op = "update_status", !.pk = pk,
                       !.ok = (new_status \in valid_statuses),
                       !.status = new_status]
        /\ UNCHANGED beside_callings

\* CallingLCRUpdateView.post
CallingLCRUpdateView(pk) ==
    /\ pk \in Pks
    /\ callings' = Calling_save(callings, pk,
                     [callings[pk] EXCEPT !.status = "LCR_UPDATED",
                                          !.lcr_updated = TRUE])
    /\ last' = [NoRequest EXCEPT !.op = "lcr_update", !.pk = pk]
    /\ UNCHANGED beside_callings

\* ---------------------------------------------- the approval specification
FixtureCreate ==
    \E status \in FixtureStatuses :
        Calling_objects_create("president", "jane", status, NoDate,
                               MaxApprovalCallings)

Approve == \E pk \in Pks, d \in Dates : SetPresidencyApproved(pk, d)

Resave == \E pk \in Pks : CallingSave(pk)

UpdateStatus ==
    \E pk \in Pks, s \in UrlStatuses : CallingUpdateStatusView(pk, s)

LCRUpdate == \E pk \in Pks : CallingLCRUpdateView(pk)

NextApproval == FixtureCreate \/ Approve \/ Resave \/ UpdateStatus \/ LCRUpdate

SpecApproval == Init /\ [][NextApproval]_vars

\* C1: saving a PENDING Calling after presidency_approved was set moves it to
\* APPROVED, and a later save of the record does not take it back to PENDING.
C1_ApprovalAdvancesPending ==
    [][ /\ (last'.op = "approve" /\ callings[last'.pk].status = "PENDING")
              => callings'[last'.pk].status = "APPROVED"
        /\ (last'.op \in {"approve", "save"}
              /\ callings[last'.pk].status = "APPROVED")
              => callings'[last'.pk].status # "PENDING" ]_vars

\* C7: approving twice with the same date leaves the Calling as the first
\* approval left it (same status, same presidency_approved).
C7_ApprovalIdempotent ==
    [][ (last'.op = "approve" /\ last'.repeat) =>
          /\ callings' = callings
          /\ callings'[last'.pk].presidency_approved = last'.date ]_vars

C7_Witness ==
    /\ last.op = "approve" /\ last.repeat
    /\ callings[last.pk].presidency_approved = last.date

\* C8: setting presidency_approved and saving a Calling whose status is not
\* PENDING leaves its status as it was.
C8_ApprovalKeepsOtherStatus ==
    [][ (last'.op = "approve" /\ callings[last'.pk].status # "PENDING")
          => callings'[last'.pk].status = callings[last'.pk].status ]_vars

C8_Witness ==
    /\ last.op = "approve"
    /\ callings[last.pk].status = "CALLED"
    /\ callings[last.pk].presidency_approved = last.date
    /\ last.date # NoDate

\* --------------------------------------------------------- current holder
\* the statuses after which a calling no longer fills its position
TerminalStatuses == {"COMPLETED", "CANCELLED", "LCR_UPDATED", "RELEASED"}

NoHolder == "None"

\* a calling that fills its position: status not terminal, not released
FillsPosition(c, position) ==
    /\ c.position = position
    /\ c.status \notin TerminalStatuses
    /\ c.date_released = NoDate

\* the scan of Position.get_current_holder over position.callings, from the
\* row pk on: the member of the first calling that fills the position
RECURSIVE ScanHolder(_, _)
ScanHolder(position, pk) ==
    IF pk > Len(callings) THEN NoHolder
    ELSE IF FillsPosition(callings[pk], position) THEN callings[pk].member
    ELSE ScanHolder(position, pk + 1)

\* a scan that looks at the status alone
get_current_holder_ignoring_release(position) ==
    LET open == {pk \in Pks : /\ callings[pk].position = position
                              /\ callings[pk].status \notin TerminalStatuses}
    IN  IF open = {} THEN NoHolder
        ELSE callings[CHOOSE pk \in open : \A q \in open : pk <= q].member

get_current_holder(position) == ScanHolder(position, 1)

\* ------------------------------------------------ the holder specification
\* form submissions for any position and member, called on date 1
HolderFormInputs ==
    { d \in FormData(Units, Positions, Members, {NoDate, 1}) :
        /\ d.date_called = 1
        /\ d.date_sustained = NoDate /\ d.date_set_apart = NoDate }

HolderFixtureCreate ==
    \E position \in Positions, member \in Members, d \in {NoDate, 1} :
        Calling_objects_create(position, member, "CALLED", d,
                               MaxHolderCallings)

HolderUpdateStatus ==
    \E pk \in Pks, s \in STATUS_CHOICES : CallingUpdateStatusView(pk, s)

HolderLCRUpdate == \E pk \in Pks : CallingLCRUpdateView(pk)

NextHolder == HolderFixtureCreate \/ HolderUpdateStatus \/ HolderLCRUpdate

SpecHolder == Init /\ [][NextHolder]_vars

\* --------------------------------------- the one-holder-per-position question
HolderFormCreate ==
    \E data \in HolderFormInputs : CallingCreateView(data, MaxHolderCallings)

HolderFormUpdate ==
    \E pk \in Pks, data \in HolderFormInputs : CallingUpdateView(pk, data)

HolderRelease ==
    \E pk \in Pks, notes \in NoteTexts :
        CallingReleaseView(pk,
            [date_released |-> 1, release_notes |-> notes], 1)

NextPosition == HolderFormCreate \/ HolderFormUpdate \/ HolderRelease

SpecPosition == Init /\ [][NextPosition]_vars

Filling(position) == {pk \in Pks : FillsPosition(callings[pk], position)}

First(pks) == CHOOSE pk \in pks : \A q \in pks : pk <= q

\* C9: get_current_holder(position) is the member of the first of the
\* position's callings with a non-terminal status and no date_released, and
\* None when there is no such calling (no calling at all, or only released
\* ones, whatever their status).
C9_CurrentHolderIsFirstFilling ==
    \A position \in Positions :
        IF Filling(position) = {}
        THEN get_current_holder(position) = NoHolder
        ELSE get_current_holder(position)
                = callings[First(Filling(position))].member

C9_Witness ==
    /\ Len(callings) = 2
    /\ callings[1].position = "president" /\ callings[2].position = "president"
    /\ callings[1].status = "CALLED" /\ callings[1].date_released # NoDate
    /\ callings[2].status = "CALLED" /\ callings[2].date_released = NoDate
    /\ callings[1].member = "jane" /\ callings[2].member = "john"
    /\ get_current_holder("president") = "john"
    /\ get_current_holder("teacher") = NoHolder

\* C10: every Position has at most one calling that fills it (non-terminal
\* status, no release date).
C10_OneHolderPerPosition ==
    \A position \in Positions : Cardinality(Filling(position)) <= 1

\* ------------------------------------------------------ permission policy
\* permissions.py: the names of the five groups
STAKE_PRESIDENT_GROUP == "Stake President"

BISHOP_GROUP == "Bishop"

CLERK_GROUP == "Clerk"

STAKE_CLERK_GROUP == "Stake Clerk"

LEADERSHIP_GROUP == "Leadership"

GroupNames ==
    {STAKE_PRESIDENT_GROUP, BISHOP_GROUP, CLERK_GROUP, STAKE_CLERK_GROUP,
     LEADERSHIP_GROUP}

\* every combination of the superuser flag and the five memberships
Users == [is_superuser : BOOLEAN, groups : SUBSET GroupNames]

user_in_group(u, group_name) == group_name \in u.groups

is_stake_president(u) ==
    u.is_superuser \/ user_in_group(u, STAKE_PRESIDENT_GROUP)

is_bishop(u) == u.is_superuser \/ user_in_group(u, BISHOP_GROUP)

\* an is_clerk that forgets the stake clerks
is_clerk_without_stake_clerk(u) ==
    u.is_superuser \/ user_in_group(u, CLERK_GROUP)

is_clerk(u) ==
    \/ u.is_superuser
    \/ user_in_group(u, CLERK_GROUP)
    \/ user_in_group(u, STAKE_CLERK_GROUP)

is_leadership(u) ==
    \/ u.is_superuser
    \/ user_in_group(u, STAKE_PRESIDENT_GROUP)
    \/ user_in_group(u, BISHOP_GROUP)
    \/ user_in_group(u, LEADERSHIP_GROUP)

can_edit_calling(u) == is_leadership(u) \/ is_clerk(u)

can_approve_calling(u) == is_stake_president(u) \/ is_bishop(u)

can_delete_calling(u) == u.is_superuser \/ is_stake_president(u)

can_manage_units(u) ==
    u.is_superuser \/ is_stake_president(u) \/ is_clerk(u)

\* the mixins of permissions.py, by the predicate their test_func calls
PolicyMixins ==
    {"StakePresidentRequiredMixin", "BishopRequiredMixin",
     "LeadershipRequiredMixin", "ClerkRequiredMixin", "CanEditCallingMixin",
     "CanApproveCallingMixin", "CanDeleteCallingMixin", "CanManageUnitsMixin"}

test_func(mixin, u) ==
    CASE mixin = "StakePresidentRequiredMixin" -> is_stake_president(u)
      [] mixin = "BishopRequiredMixin" -> is_bishop(u)
      [] mixin = "LeadershipRequiredMixin" -> is_leadership(u)
      [] mixin = "ClerkRequiredMixin" -> is_clerk(u)
      [] mixin = "CanEditCallingMixin" -> can_edit_calling(u)
      [] mixin = "CanApproveCallingMixin" -> can_approve_calling(u)
      [] mixin = "CanDeleteCallingMixin" -> can_delete_calling(u)
      [] mixin = "CanManageUnitsMixin" -> can_manage_units(u)

\* a user logs in: the requests that follow are made as that user
LoginAs(u) ==
    /\ user' = u
    /\ last' = [NoRequest EXCEPT !.op = "login"]
    /\ UNCHANGED <<callings, history, store, imp, auth_group, parent_unit,
                   organization_unit, requests>>

\* UserPassesTestMixin.dispatch of a view guarded by one of the mixins: the
\* view runs when test_func holds, handle_no_permission raises
\* PermissionDenied otherwise; nothing is written either way
PolicyDispatch(mixin) ==
    /\ last' = [NoRequest EXCEPT !.op = mixin,
                   !.ok = test_func(mixin, user),
                   !.denied = ~test_func(mixin, user)]
    /\ UNCHANGED <<callings, user, history, store, imp, auth_group,
                   parent_unit, organization_unit, requests>>

\* ------------------------------------------------ the policy specification
Login == \E u \in Users : LoginAs(u)

Guarded == \E mixin \in PolicyMixins : PolicyDispatch(mixin)

NextPolicy == Login \/ Guarded

SpecPolicy == Init /\ [][NextPolicy]_vars

InGroup(group_name) == user_in_group(user, group_name)

\* C11 as stated: for every combination of the superuser flag and the five
\* memberships, is_leadership = stake-president or bishop or leadership
\* group, is_clerk = clerk or stake-clerk, can_edit = is_leadership or
\* is_clerk, can_approve = stake-president or bishop, can_delete = superuser
\* or stake-president, can_manage_units = superuser or stake-president or
\* is_clerk, and a superuser satisfies every predicate.
C11_PolicyAsStated ==
    /\ is_leadership(user)
         <=> (is_stake_president(user) \/ is_bishop(user)
                \/ InGroup(LEADERSHIP_GROUP))
    /\ is_clerk(user) <=> (InGroup(CLERK_GROUP) \/ InGroup(STAKE_CLERK_GROUP))
    /\ can_edit_calling(user) <=> (is_leadership(user) \/ is_clerk(user))
    /\ can_approve_calling(user)
         <=> (is_stake_president(user) \/ is_bishop(user))
    /\ can_delete_calling(user)
         <=> (user.is_superuser \/ is_stake_president(user))
    /\ can_manage_units(user)
         <=> (user.is_superuser \/ is_stake_president(user)
                \/ is_clerk(user))
    /\ user.is_superuser =>
         \A mixin \in PolicyMixins : test_func(mixin, user)

\* the capabilities the policy grants to u
Capabilities(u) == {mixin \in PolicyMixins : test_func(mixin, u)}

\* C11, amended: the superuser flag is a member of every union (is_clerk =
\* superuser or clerk or stake-clerk, is_leadership = superuser or
\* stake-president or bishop or leadership group, can_approve = superuser
\* or stake-president or bishop), the other equations are as stated, a
\* superuser satisfies every predicate, and a user with one more group
\* keeps every capability.
C11_PolicyUnions ==
    /\ is_leadership(user)
         <=> (user.is_superuser \/ InGroup(STAKE_PRESIDENT_GROUP)
                \/ InGroup(BISHOP_GROUP) \/ InGroup(LEADERSHIP_GROUP))
    /\ is_clerk(user)
         <=> (user.is_superuser \/ InGroup(CLERK_GROUP)
                \/ InGroup(STAKE_CLERK_GROUP))
    /\ can_edit_calling(user) <=> (is_leadership(user) \/ is_clerk(user))
    /\ can_approve_calling(user)
         <=> (user.is_superuser \/ InGroup(STAKE_PRESIDENT_GROUP)
                \/ InGroup(BISHOP_GROUP))
    /\ can_delete_calling(user)
         <=> (user.is_superuser \/ InGroup(STAKE_PRESIDENT_GROUP))
    /\ can_manage_units(user)
         <=> (user.is_superuser \/ InGroup(STAKE_PRESIDENT_GROUP)
                \/ is_clerk(user))
    /\ user.is_superuser => Capabilities(user) = PolicyMixins
    /\ \A g \in GroupNames :
         Capabilities(user)
            \subseteq Capabilities([user EXCEPT !.groups = @ \cup {g}])
    /\ last.op \in PolicyMixins => (last.ok <=> last.op \in Capabilities(user))

C11_Witness ==
    /\ ~user.is_superuser
    /\ user.groups = {STAKE_CLERK_GROUP}
    /\ last.op = "CanManageUnitsMixin" /\ last.ok
    /\ ~can_approve_calling(user) /\ ~can_delete_calling(user)

\* C12: a non-superuser whose only group is Bishop may approve and edit
\* callings and may not delete them; a non-superuser whose only group is
\* Leadership may neither edit nor delete callings.
C12_BishopAndLeadership ==
    /\ (~user.is_superuser /\ user.groups = {BISHOP_GROUP}) =>
          /\ can_approve_calling(user)
          /\ can_edit_calling(user)
          /\ ~can_delete_calling(user)
    /\ (~user.is_superuser /\ user.groups = {LEADERSHIP_GROUP}) =>
          /\ ~can_edit_calling(user)
          /\ ~can_delete_calling(user)

\* ------------------------------------------------ access to the calling views
\* a test_func that lets every logged-in user through
SuperuserRequiredMixin_test_func_any_user(u) == TRUE

\* SuperuserRequiredMixin.test_func
SuperuserRequiredMixin_test_func(u) == u.is_superuser

\* UserPassesTestMixin.handle_no_permission for a logged-in user: the request
\* is answered 403 before the view's handler runs
handle_no_permission(op, pk) ==
    /\ last' = [NoRequest EXCEPT !.op = op, !.pk = pk, !.ok = FALSE,
                   !.denied = TRUE]
    /\ UNCHANGED <<callings, user, history, store, imp, auth_group,
                   parent_unit, organization_unit, requests>>

\* dispatch of a view declared with SuperuserRequiredMixin: the handler runs
\* only when test_func holds for request.user
Dispatch(op, pk, view) ==
    IF SuperuserRequiredMixin_test_func(user) THEN view
    ELSE handle_no_permission(op, pk)

\* class CallingHistory: an entry refers to its calling (on_delete=CASCADE)
NewHistory(pk, action) == [calling |-> pk, action |-> action]

ACTION_CHOICES == {"CALLED", "RELEASED", "UPDATED"}

\* CallingHistory.objects.create(calling=, action=, ...)
CallingHistory_objects_create(pk, action) ==
    /\ pk \in Pks
    /\ Len(history) < MaxHistory
    /\ history' = Append(history, NewHistory(pk, action))
    /\ last' = [NoRequest EXCEPT !.op = "history.create", !.pk = pk]
    /\ UNCHANGED <<callings, user, store, imp, auth_group, parent_unit,
                   organization_unit, requests>>

\* the collector of Model.delete: the rows that refer to the calling through a
\* CASCADE foreign key go with it
Cascade(table, pk) ==
    [i \in DOMAIN table |->
        IF table[i] # Deleted /\ table[i].calling = pk THEN Deleted
        ELSE table[i]]

\* CallingDeleteView (DeleteView.post): the row is deleted, and with it the
\* CallingHistory rows that refer to it
CallingDeleteView(pk) ==
    /\ pk \in Pks
    /\ callings' = [callings EXCEPT ![pk] = Deleted]
    /\ history' = Cascade(history, pk)
    /\ last' = [NoRequest EXCEPT !.op = "delete", !.pk = pk]
    /\ UNCHANGED <<user, store, imp, auth_group, parent_unit,
                   organization_unit, requests>>

\* ------------------------------------------------ the access specification
\* a superuser, and the users who are not, in at most one group
AccessUsers ==
    {Superuser}
        \cup {u \in Users : ~u.is_superuser /\ Cardinality(u.groups) <= 1}

\* one submission that validates and one that lacks date_called
AccessFormInputs ==
    { d \in FormData(Units, {"president"}, {"jane"}, {NoDate, 1}) :
        /\ d.calling_status = "ACTIVE"
        /\ d.date_sustained = d.date_called
        /\ d.date_set_apart = NoDate /\ d.date_released = NoDate }

AccessLogin == \E u \in AccessUsers : LoginAs(u)

AccessCreate ==
    \E data \in AccessFormInputs :
        Dispatch("create", 0, CallingCreateView(data, MaxAccessCallings))

AccessUpdate ==
    \E pk \in Pks, data \in AccessFormInputs :
        Dispatch("update", pk, CallingUpdateView(pk, data))

AccessDelete == \E pk \in Pks : Dispatch("delete", pk, CallingDeleteView(pk))

AccessRelease ==
    \E pk \in Pks, notes \in NoteTexts \cup {NoText} :
        Dispatch("release", pk,
            CallingReleaseView(pk,
                [date_released |-> 1, release_notes |-> notes], 1))

AccessUpdateStatus ==
    \E pk \in Pks, s \in {"COMPLETED", "PENDING"} :
        Dispatch("update_status", pk, CallingUpdateStatusView(pk, s))

AccessLCRUpdate ==
    \E pk \in Pks : Dispatch("lcr_update", pk, CallingLCRUpdateView(pk))

HistoryCreate ==
    \E pk \in Pks, action \in {"CALLED"} :
        CallingHistory_objects_create(pk, action)

NextAccess ==
    \/ AccessLogin \/ AccessCreate \/ AccessUpdate \/ AccessDelete
    \/ AccessRelease \/ AccessUpdateStatus \/ AccessLCRUpdate
    \/ HistoryCreate

SpecAccess == Init /\ [][NextAccess]_vars

\* the requests that write to the Calling table
MutatingOps ==
    {"create", "update", "delete", "release", "update_status", "lcr_update"}

\* the capability the policy asks of the user for a request
HasCapability(u, op) ==
    IF op = "delete" THEN can_delete_calling(u) ELSE can_edit_calling(u)

\* C13: a create, update, delete, release, status update or LCR update by a
\* user who lacks the capability for it (can_delete_calling for a delete,
\* can_edit_calling for the others) is denied, and the Calling table and the
\* CallingHistory table are afterwards exactly as before.
C13_DeniedWithoutCapability ==
    [][ (last'.op \in MutatingOps /\ ~HasCapability(user, last'.op)) =>
          /\ last'.denied
          /\ callings' = callings
          /\ history' = history ]_vars

C13_Witness ==
    /\ last.op = "delete" /\ last.denied
    /\ ~user.is_superuser /\ user.groups = {BISHOP_GROUP}
    /\ last.pk \in Pks
    /\ Len(history) = 1 /\ history[1] = NewHistory(last.pk, "CALLED")

\* C14: a mutating request is permitted exactly when the policy grants the
\* user its capability: can_delete_calling for a delete, can_edit_calling
\* for a create, update, release, status update or LCR update.
C14_PolicyDecides ==
    [][ last'.op \in MutatingOps =>
          (~last'.denied <=> HasCapability(user, last'.op)) ]_vars

\* C15: every successful create, update, release, status update or LCR
\* update of a Calling appends exactly one CallingHistory entry that refers
\* to that Calling.
C15_MutationAppendsHistory ==
    [][ (last'.op \in MutatingOps \ {"delete"} /\ last'.ok /\ ~last'.denied) =>
          /\ Len(history') = Len(history) + 1
          /\ history'[Len(history')].calling = last'.pk ]_vars

\* C16: a CallingHistory entry, once written, is never modified and never
\* removed, whatever is done afterwards (deleting its Calling included).
C16_HistoryAppendOnly ==
    [][ \A i \in DOMAIN history :
          i \in DOMAIN history' /\ history'[i] = history[i] ]_vars

\* ------------------------------------------------------------- CSV import
\* The data rows of a file are sequences of cells, as csv.reader yields
\* them; Cell(row, k) is Python's row[k].  An empty cell is NoText.
Cell(row, k) == row[k + 1]

\* row[k] if len(row) > k and row[k] else None
CellOrNone(row, k) ==
    IF Len(row) > k /\ Cell(row, k) # NoText THEN Cell(row, k) ELSE NoText

\* any(row)
AnyCell(row) == \E k \in DOMAIN row : row[k] # NoText

\* the characters of the holder names that occur in the files
Chars(name) ==
    CASE name = "jane" -> <<"j", "a", "n", "e">>
      [] name = "john" -> <<"j", "o", "h", "n">>
      [] name = "06/29/2025" ->
            <<"0", "6", "/", "2", "9", "/", "2", "0", "2", "5">>
      [] OTHER -> << >>

Digits == {"0", "1", "2", "3", "4", "5", "6", "7", "8", "9"}

\* any(c.isdigit() for c in name) and any(c in name for c in ['/', '-'])
LooksLikeDate(name) ==
    /\ \E k \in DOMAIN Chars(name) : Chars(name)[k] \in Digits
    /\ \E k \in DOMAIN Chars(name) : Chars(name)[k] \in {"/", "-"}

\* cell.strip(): the cells of the files carry no blanks around their text,
\* a cell of blanks alone becomes empty
Strip(cell) == IF cell = " " THEN NoText ELSE cell

StripRow(row) == [k \in DOMAIN row |-> Strip(row[k])]

\* import_callings parse_date: '%m/%d/%Y', then '%Y-%m-%d', else None
parse_date(date_str) ==
    CASE date_str = "01/01/2025" -> 1
      [] date_str = "2025-01-02" -> 2
      [] OTHER -> NoDate

\* import_completed_callings parse_date: '%m/%d/%Y', then '%m-%d-%Y', else
\* None
completed_parse_date(date_str) ==
    CASE date_str = "01/01/2025" -> 1
      [] date_str = "01-02-2025" -> 2
      [] OTHER -> NoDate

\* the store an import works on: the Calling table, the other tables and
\* the counters
World(c, st, stats) == [callings |-> c, store |-> st, stats |-> stats]

LivePks(table) == {pk \in DOMAIN table : table[pk] # Deleted}

\* Unit.objects.get_or_create(name=); counted says whether the caller adds
\* the creation to units_created
Unit_get_or_create(w, name, counted) ==
    IF name \in w.store.units THEN w
    ELSE [w EXCEPT !.store.units = @ \cup {name},
                   !.stats.units_created = IF counted THEN @ + 1 ELSE @]

\* Organization.objects.get_or_create(name=)
Organization_get_or_create(w, name) ==
    IF name \in w.store.organizations THEN w
    ELSE [w EXCEPT !.store.organizations = @ \cup {name},
                   !.stats.organizations_created = @ + 1]

\* Position.objects.get_or_create(title=, organization=)
Position_get_or_create(w, position) ==
    IF position \in w.store.positions THEN w
    ELSE [w EXCEPT !.store.positions = @ \cup {position},
                   !.stats.positions_created = @ + 1]

\* Command.get_or_create_member: the member of that name, created with the
\* unit as home unit when there is none; a member without home unit gets it
get_or_create_member(w, name, unit) ==
    LET found == {m \in w.store.members : m.name = name}
    IN  IF found = {}
        THEN [w EXCEPT !.store.members =
                          @ \cup {[name |-> name, home_unit |-> unit]}]
        ELSE [w EXCEPT !.store.members =
                  {IF m.name = name /\ m.home_unit = NoText
                   THEN [m EXCEPT !.home_unit = unit] ELSE m : m \in @}]

\* the callings Calling.objects.get(unit=, position=, member=,
\* status='ACTIVE') chooses among
ActiveCallings(table, unit, position, member) ==
    {pk \in LivePks(table) :
        /\ table[pk].unit = unit /\ table[pk].position = position
        /\ table[pk].member = member /\ table[pk].status = "ACTIVE"}

\* Command.release_existing_calling: the one matching ACTIVE calling becomes
\* RELEASED; DoesNotExist is passed over, MultipleObjectsReturned is raised
release_existing_calling(w, unit, position, member) ==
    LET found == ActiveCallings(w.callings, unit, position, member)
    IN  IF found = {} THEN [w |-> w, raised |-> FALSE]
        ELSE IF Cardinality(found) > 1 THEN [w |-> w, raised |-> TRUE]
        ELSE LET pk == CHOOSE q \in found : TRUE
             IN  [w |-> [w EXCEPT !.callings[pk].status = "RELEASED",
                                  !.stats.callings_updated = @ + 1],
                  raised |-> FALSE]

\* Command.create_new_calling: called_by and bishop_consulted_by are looked
\* up when their cells are filled, then Calling.objects.get_or_create(unit=,
\* position=, member=, status='ACTIVE', defaults=...)
create_new_calling(w, unit, position, member, row) ==
    LET called_by_name == CellOrNone(row, 11)
        w1 == IF called_by_name = NoText THEN w
              ELSE [get_or_create_member(w, called_by_name, unit)
                      EXCEPT !.stats.members_created = @ + 1]
        bishop_consulted_by_name == CellOrNone(row, 9)
        w2 == IF bishop_consulted_by_name = NoText THEN w1
              ELSE [get_or_create_member(w1, bishop_consulted_by_name, unit)
                      EXCEPT !.stats.members_created = @ + 1]
        lcr_updated == Len(row) > 15 /\ Cell(row, 15) = "TRUE"
        found == ActiveCallings(w2.callings, unit, position, member)
    IN  IF Cardinality(found) > 1 THEN [w |-> w2, raised |-> TRUE]
        ELSE IF found # {} THEN [w |-> w2, raised |-> FALSE]
        ELSE [w |-> [w2 EXCEPT
                 !.callings = Append(@,
                     [NewCalling(unit, position, member) EXCEPT
                         !.status = "ACTIVE",
                         !.date_called =
                             parse_date(CellOrNone(row, 5)),
                         !.date_sustained =
                             parse_date(CellOrNone(row, 13)),
                         !.date_set_apart =
                             parse_date(CellOrNone(row, 14)),
                         !.presidency_approved =
                             parse_date(CellOrNone(row, 8)),
                         !.lcr_updated = lcr_updated]),
                 !.stats.callings_created = @ + 1],
              raised |-> FALSE]

\* import_callings, the try block of the row loop (lines 73-136): what was
\* written before an exception stays written
import_callings_try(w, unit_name, org_name, row) ==
    LET w1 == Unit_get_or_create(w, unit_name, TRUE)
        w2 == Organization_get_or_create(w1, org_name)
        position == [title |-> Cell(row, 2), organization |-> org_name]
        w3 == Position_get_or_create(w2, position)
        released_member_name == CellOrNone(row, 3)
        w4 == IF released_member_name = NoText THEN w3
              ELSE [get_or_create_member(w3, released_member_name, unit_name)
                      EXCEPT !.stats.members_created = @ + 1]
        released ==
            IF released_member_name = NoText
            THEN [w |-> w4, raised |-> FALSE]
            ELSE release_existing_calling(w4, unit_name, position,
                                          released_member_name)
        called_member_name == CellOrNone(row, 6)
        home_unit_name == CellOrNone(row, 7)
        w5 == IF home_unit_name = NoText THEN released.w
              ELSE Unit_get_or_create(released.w, home_unit_name, FALSE)
        home_unit == IF home_unit_name = NoText THEN unit_name
                     ELSE home_unit_name
        w6 == [get_or_create_member(w5, called_member_name, home_unit)
                 EXCEPT !.stats.members_created = @ + 1]
    IN  IF released.raised THEN released
        ELSE IF called_member_name = NoText
        THEN [w |-> released.w, raised |-> FALSE]
        ELSE create_new_calling(w6, unit_name, position, called_member_name,
                                row)

\* the outcome of one pass of a row loop: the store and counters after it,
\* the carried unit and organization, what the row was given, and whether an
\* exception left the loop
RowResult(w, unit, org, given, crashed) ==
    [w |-> w, current_unit |-> unit, current_org |-> org, given |-> given,
     crashed |-> crashed]

Skipped(w) == [w EXCEPT !.stats.rows_skipped = @ + 1]

\* what a row was given: nothing for a row the loop passed over before the
\* carry-forward, else the carried unit and organization
NotGiven == [unit |-> NoText, org |-> NoText, carried |-> FALSE]

Given(unit, org) == [unit |-> unit, org |-> org, carried |-> TRUE]

\* a row loop that keeps the carried organization when a unit cell is filled
import_callings_row_keeping_org(w0, current_unit, current_org, raw) ==
    LET w == [w0 EXCEPT !.stats.rows_processed = @ + 1]
        row == StripRow(raw)
        unit == IF Cell(row, 0) # NoText THEN Cell(row, 0) ELSE current_unit
        org0 == current_org
        org == IF Cell(row, 1) # NoText THEN Cell(row, 1) ELSE org0
        tried == import_callings_try(w, unit, org, row)
    IN  IF ~AnyCell(raw)
        THEN RowResult(Skipped(w), current_unit, current_org, NotGiven, FALSE)
        ELSE IF Len(row) < 2
        THEN RowResult(w, unit, org0, NotGiven, TRUE)
        ELSE IF unit = NoText \/ org = NoText
        THEN RowResult(Skipped(w), unit, org, Given(unit, org), FALSE)
        ELSE IF Len(row) < 3
        THEN RowResult(w, unit, org, Given(unit, org), TRUE)
        ELSE IF Cell(row, 2) = NoText
        THEN RowResult(Skipped(w), unit, org, Given(unit, org), FALSE)
        ELSE RowResult(IF tried.raised THEN Skipped(tried.w) ELSE tried.w,
                       unit, org, Given(unit, org), FALSE)

\* import_callings, one pass of the row loop (lines 48-140).  row[1] and
\* row[2] are read before the try block: a row too short for them raises
\* IndexError out of the command
import_callings_row(w0, current_unit, current_org, raw) ==
    LET w == [w0 EXCEPT !.stats.rows_processed = @ + 1]
        row == StripRow(raw)
        unit == IF Cell(row, 0) # NoText THEN Cell(row, 0) ELSE current_unit
        org0 == IF Cell(row, 0) # NoText THEN NoText ELSE current_org
        org == IF Cell(row, 1) # NoText THEN Cell(row, 1) ELSE org0
        tried == import_callings_try(w, unit, org, row)
    IN  IF ~AnyCell(raw)
        THEN RowResult(Skipped(w), current_unit, current_org, NotGiven, FALSE)
        ELSE IF Len(row) < 2
        THEN RowResult(w, unit, org0, NotGiven, TRUE)
        ELSE IF unit = NoText \/ org = NoText
        THEN RowResult(Skipped(w), unit, org, Given(unit, org), FALSE)
        ELSE IF Len(row) < 3
        THEN RowResult(w, unit, org, Given(unit, org), TRUE)
        ELSE IF Cell(row, 2) = NoText
        THEN RowResult(Skipped(w), unit, org, Given(unit, org), FALSE)
        ELSE RowResult(IF tried.raised THEN Skipped(tried.w) ELSE tried.w,
                       unit, org, Given(unit, org), FALSE)

\* ------------------------------------------------ import_completed_callings
\* a row of fewer than 17 cells is extended with None
PaddedCell(row, k) == IF Len(row) > k THEN Cell(row, k) ELSE NoText

\* str.lower() of the holder cells that occur in the files
Lower(text) ==
    CASE text = "N/A" -> "n/a"
      [] text = "TRUE" -> "true"
      [] text = "Vacant" -> "vacant"
      [] OTHER -> text

\* the calling import_completed_callings writes: calling_data
CompletedCalling(unit, org, position, name, row) ==
    [ unit |-> unit, organization |-> org, position |-> position,
      name |-> name, status |-> "COMPLETED", calling_status |-> "RELEASED",
      date_called |-> completed_parse_date(PaddedCell(row, 13)),
      date_sustained |-> completed_parse_date(PaddedCell(row, 14)),
      date_set_apart |-> completed_parse_date(PaddedCell(row, 15)),
      date_released |-> completed_parse_date(PaddedCell(row, 5)),
      presidency_approved |-> completed_parse_date(PaddedCell(row, 8)),
      lcr_updated |-> (Lower(PaddedCell(row, 16)) = "true") ]

\* Calling.objects.update_or_create(name=, position=, organization=, unit=,
\* defaults=calling_data)
Calling_update_or_create(w, inst) ==
    LET found == {pk \in LivePks(w.callings) :
                    /\ w.callings[pk].name = inst.name
                    /\ w.callings[pk].position = inst.position
                    /\ w.callings[pk].organization = inst.organization
                    /\ w.callings[pk].unit = inst.unit}
    IN  IF Cardinality(found) > 1 THEN [w |-> w, raised |-> TRUE]
        ELSE IF found = {}
        THEN [w |-> [w EXCEPT !.callings = Append(@, inst),
                              !.stats.callings_created = @ + 1],
              raised |-> FALSE]
        ELSE LET pk == CHOOSE q \in found : TRUE
             IN  [w |-> [w EXCEPT !.callings[pk] = inst,
                                  !.stats.callings_updated = @ + 1],
                  raised |-> FALSE]

\* import_completed_callings, one pass of the row loop (lines 54-209); the
\* whole pass is inside the try block.  Position is looked up by title alone
import_completed_callings_row(w, current_unit, current_org, raw) ==
    LET row == StripRow(raw)
        unit == IF PaddedCell(row, 0) # NoText THEN PaddedCell(row, 0)
                ELSE current_unit
        org == IF PaddedCell(row, 1) # NoText THEN PaddedCell(row, 1)
               ELSE current_org
        w1 == Unit_get_or_create(w, unit, TRUE)
        w2 == Organization_get_or_create(w1, org)
        position_title == PaddedCell(row, 2)
        position == [title |-> position_title, organization |-> NoText]
        w3 == Position_get_or_create(w2, position)
        member_name == PaddedCell(row, 3)
        saved == Calling_update_or_create(w3,
                    CompletedCalling(unit, org, position, member_name, row))
    IN  IF ~AnyCell(raw)
        THEN RowResult(w, current_unit, current_org, NotGiven, FALSE)
        ELSE IF unit = NoText \/ org = NoText
        THEN RowResult(Skipped(w), unit, org, Given(unit, org), FALSE)
        ELSE IF position_title = NoText
        THEN RowResult(Skipped(w2), unit, org, Given(unit, org), FALSE)
        ELSE IF member_name = NoText
                \/ Lower(member_name) \in {"", "n/a", "vacant"}
        THEN RowResult(Skipped(w3), unit, org, Given(unit, org), FALSE)
        ELSE IF LooksLikeDate(member_name)
        THEN RowResult(Skipped(w3), unit, org, Given(unit, org), FALSE)
        ELSE IF saved.raised
        THEN RowResult(Skipped(saved.w), unit, org, Given(unit, org), FALSE)
        ELSE RowResult([saved.w EXCEPT !.stats.rows_processed = @ + 1],
                       unit, org, Given(unit, org), FALSE)

\* ------------------------------------------------------ the import commands
ImportCommands == {"import_callings", "import_completed_callings"}

\* import_callings create_default_data
DEFAULT_STAKE == "Twin Falls Stake"

\* Command.handle up to the row loop: the counters are zeroed, nothing is
\* carried; import_callings first makes sure the default stake exists
StartRun(cmd, file, run, settled) ==
    /\ imp' = [NoImport EXCEPT !.phase = "running", !.cmd = cmd,
                  !.file = file, !.run = run, !.settled = settled]
    /\ store' = IF cmd = "import_callings"
                THEN [store EXCEPT !.units = @ \cup {DEFAULT_STAKE}]
                ELSE store
    /\ UNCHANGED <<callings, last, user, history, auth_group, parent_unit,
                   organization_unit, requests>>

\* python manage.py <cmd> <file>, for a file that exists
ImportStart(cmd, file) == StartRun(cmd, file, 1, << >>)

\* the same command over the same file once more
ImportAgain ==
    /\ imp.phase = "done" /\ imp.run = 1
    /\ StartRun(imp.cmd, imp.file, 2, imp.settled)

\* one pass of the command's row loop
ImportRow ==
    /\ imp.phase = "running"
    /\ imp.i <= Len(imp.file)
    /\ LET raw == imp.file[imp.i]
           w == World(callings, store, imp.stats)
           r == IF imp.cmd = "import_callings"
                THEN import_callings_row(w, imp.current_unit,
                                         imp.current_org, raw)
                ELSE import_completed_callings_row(w, imp.current_unit,
                                                   imp.current_org, raw)
       IN  /\ callings' = r.w.callings
           /\ store' = r.w.store
           /\ imp' = [imp EXCEPT
                        !.phase = IF r.crashed THEN "crashed" ELSE @,
                        !.i = IF r.crashed THEN @ ELSE @ + 1,
                        !.current_unit = r.current_unit,
                        !.current_org = r.current_org,
                        !.stats = r.w.stats,
                        !.used = IF r.crashed THEN @ ELSE Append(@, r.given)]
    /\ UNCHANGED <<last, user, history, auth_group, parent_unit,
                   organization_unit, requests>>

\* the rows are exhausted: the summary is printed
ImportFinish ==
    /\ imp.phase = "running"
    /\ imp.i > Len(imp.file)
    /\ imp' = [imp EXCEPT !.phase = "done",
                  !.settled = IF imp.run = 1
                              THEN <<[callings |-> callings, store |-> store]>>
                              ELSE @]
    /\ UNCHANGED <<callings, last, user, history, store, auth_group,
                   parent_unit, organization_unit, requests>>

\* ------------------------------------------------ the import specification
\* a data row in the layout both commands read: Unit, Organization,
\* Position, Currently Called, two cells the rows leave empty, Name
FullRow(unit, org, position, currently_called, name) ==
    <<unit, org, position, currently_called, NoText, NoText, name>>

\* the holder cells of a row: Currently Called and Name
HolderCells ==
    { <<NoText, "jane">>, <<"jane", "john">>, <<"jane", "jane">>,
      <<"06/29/2025", NoText>> }

\* the rows of the files: every unit and organization cell, filled or
\* blank, with each pair of holder cells; a row of one cell; a blank row
ImportRows ==
    { FullRow(u, o, "president", h[1], h[2]) :
        u \in {NoText, "ward", "branch"}, o \in {NoText, "relief society"},
        h \in HolderCells }
    \cup { <<"ward">>, FullRow(NoText, NoText, NoText, NoText, NoText) }

ImportFiles == UNION { [1..n -> ImportRows] : n \in 0..MaxRows }

Import ==
    /\ imp.phase = "idle"
    /\ \E cmd \in ImportCommands, file \in ImportFiles :
          ImportStart(cmd, file)

NextImport == Import \/ ImportRow \/ ImportFinish \/ ImportAgain

SpecImport == Init /\ [][NextImport]_vars

C18_BadRowNeverAborts ==
    /\ imp.phase # "crashed"
    /\ imp.phase = "done" => Len(imp.used) = Len(imp.file)

\* the cell of column k in the last row, among the rows from to .. upto of
\* the file, that has a filled cell there; NoText when there is none
RECURSIVE LastFilled(_, _, _, _)
LastFilled(file, from, upto, k) ==
    IF upto < from \/ upto < 1 THEN NoText
    ELSE IF Len(file[upto]) > k /\ Strip(Cell(file[upto], k)) # NoText
    THEN Strip(Cell(file[upto], k))
    ELSE LastFilled(file, from, upto - 1, k)

\* the index of the last row up to upto with a filled Unit cell, 1 when
\* there is none
RECURSIVE LastUnitRow(_, _)
LastUnitRow(file, upto) ==
    IF upto <= 1 THEN 1
    ELSE IF Len(file[upto]) > 0 /\ Strip(Cell(file[upto], 0)) # NoText
    THEN upto
    ELSE LastUnitRow(file, upto - 1)

\* C19 as stated: the unit, and the organization, a row is given is the
\* value of the last filled Unit, respectively Organization, cell at or
\* before the row.
C19_CarryForwardAsStated ==
    \A n \in DOMAIN imp.used :
        imp.used[n].carried =>
            /\ imp.used[n].unit = LastFilled(imp.file, 1, n, 0)
            /\ imp.used[n].org = LastFilled(imp.file, 1, n, 1)

\* C19, amended: the unit a row is given is the value of the last filled
\* Unit cell at or before the row.  The organization is the value of the
\* last filled Organization cell at or before the row in
\* import_completed_callings; in import_callings a filled Unit cell clears
\* the carried organization, so it is the value of the last filled
\* Organization cell among the rows from the last filled Unit cell on.
C19_CarryForward ==
    \A n \in DOMAIN imp.used :
        imp.used[n].carried =>
            /\ imp.used[n].unit = LastFilled(imp.file, 1, n, 0)
            /\ imp.used[n].org =
                 IF imp.cmd = "import_callings"
                 THEN LastFilled(imp.file, LastUnitRow(imp.file, n), n, 1)
                 ELSE LastFilled(imp.file, 1, n, 1)

C19_Witness ==
    /\ imp.cmd = "import_callings" /\ imp.phase = "done"
    /\ Len(imp.file) = 2
    /\ Cell(imp.file[1], 0) = "ward" /\ Cell(imp.file[2], 0) = NoText
    /\ Cell(imp.file[2], 1) = NoText
    /\ imp.used[2] = Given("ward", "relief society")
    /\ \E pk \in Pks : callings[pk].unit = "ward" /\ callings[pk].member = "john"

\* the Currently Called cell of the row looks like a date
DateInHolderCell(row) == Len(row) > 3 /\ LooksLikeDate(Strip(Cell(row, 3)))

RunBaseline ==
    IF imp.run = 2 THEN imp.settled[1]
    ELSE [callings |-> << >>, store |-> EmptyStore]

CallingsPermissions ==
    { "add_calling", "change_calling", "delete_calling", "view_calling",
      "add_unit", "change_unit", "delete_unit", "view_unit",
      "add_organization", "change_organization", "delete_organization",
      "view_organization",
      "add_position", "change_position", "delete_position", "view_position" }

\* the Permission table: the callings permissions and one of another app
PermissionRegistry == CallingsPermissions \cup {"add_user"}

\* Command.handle groups_config: the permissions configured for each group
groups_config ==
    [ g \in GroupNames |->
        CASE g = STAKE_PRESIDENT_GROUP -> CallingsPermissions
          [] g = BISHOP_GROUP ->
               { "add_calling", "change_calling", "view_calling",
                 "view_unit", "view_organization", "view_position" }
          [] g = STAKE_CLERK_GROUP ->
               { "add_calling", "change_calling", "view_calling",
                 "add_unit", "change_unit", "view_unit",
                 "add_organization", "change_organization",
                 "view_organization",
                 "add_position", "change_position", "view_position" }
          [] g = CLERK_GROUP ->
               { "add_calling", "change_calling", "view_calling",
                 "view_unit", "view_organization", "view_position" }
          [] g = LEADERSHIP_GROUP ->
               { "view_calling", "view_unit", "view_organization",
                 "view_position" } ]

\* a bootstrap that leaves a group's permissions in place
group_permissions_clear_keeping(perms) == perms

\* group.permissions.clear()
group_permissions_clear(perms) == {}

\* Permission.objects.get(codename=, content_type__app_label='callings') for
\* each configured codename; DoesNotExist is reported and passed over
ConfiguredPermissions(g) ==
    {codename \in groups_config[g] : codename \in CallingsPermissions}

\* the body of the loop over groups_config for one group: get_or_create,
\* clear, then add each permission found
BootstrapGroup(table, g) ==
    LET perms == IF g \in DOMAIN table THEN table[g] ELSE {}
    IN  group_permissions_clear(perms) \cup ConfiguredPermissions(g)

\* python manage.py create_groups: Command.handle to its end.  The groups
\* that are not configured are left as they are; created_count and
\* updated_count are the numbers of the summary line
create_groups ==
    /\ auth_group' =
          [ g \in DOMAIN auth_group \cup GroupNames |->
              IF g \in GroupNames THEN BootstrapGroup(auth_group, g)
              ELSE auth_group[g] ]
    /\ last' = [NoRequest EXCEPT
                  !.op = "create_groups",
                  !.pk = Cardinality(GroupNames \ DOMAIN auth_group),
                  !.repeat = (last.op = "create_groups")]
    /\ UNCHANGED <<callings, user, history, store, imp, parent_unit,
                   organization_unit, requests>>

\* the groups an administrator makes by hand: the configured names and one
\* more
AdminGroupNames == GroupNames \cup {"Choir"}

\* the grants that differ from the configuration: a permission of a group
\* that is not configured for it
ExtraGrants(table) ==
    { <<g, p>> \in (DOMAIN table) \X PermissionRegistry :
         p \in table[g] /\ (g \notin GroupNames \/ p \notin groups_config[g]) }

\* Group.objects.create(name=) in the admin site
GroupCreate ==
    \E g \in AdminGroupNames \ DOMAIN auth_group :
        /\ auth_group' = [h \in DOMAIN auth_group \cup {g} |->
                             IF h = g THEN {} ELSE auth_group[h]]
        /\ last' = [NoRequest EXCEPT !.op = "group_create"]
        /\ UNCHANGED <<callings, user, history, store, imp, parent_unit,
                       organization_unit, requests>>

\* group.permissions.add(permission) in the admin site
GroupGrant ==
    /\ Cardinality(ExtraGrants(auth_group)) < MaxGrants
    /\ \E g \in DOMAIN auth_group,
          p \in {"delete_calling", "view_calling", "add_unit", "add_user"} :
        /\ p \notin auth_group[g]
        /\ auth_group' = [auth_group EXCEPT ![g] = @ \cup {p}]
        /\ last' = [NoRequest EXCEPT !.op = "group_grant"]
        /\ UNCHANGED <<callings, user, history, store, imp, parent_unit,
                       organization_unit, requests>>

NextGroups == create_groups \/ GroupCreate \/ GroupGrant

SpecGroups == Init /\ [][NextGroups]_vars

\* C22: after a run of create_groups the five groups exist and the
\* permissions of each are exactly the configured ones, whatever groups and
\* grants there were before; a run that follows a run changes nothing.
C22_BootstrapResets ==
    [][ last'.op = "create_groups" =>
          /\ \A g \in GroupNames :
                g \in DOMAIN auth_group' /\ auth_group'[g] = groups_config[g]
          /\ last.op = "create_groups" => auth_group' = auth_group ]_vars

\* a run of create_groups found the Stake President group with "add_user",
\* which is not configured for it, and the Bishop group without permissions
C22_Witness ==
    /\ last.op = "create_groups"
    /\ auth_group[STAKE_PRESIDENT_GROUP] = CallingsPermissions
    /\ "add_user" \notin auth_group[STAKE_PRESIDENT_GROUP]
    /\ "Choir" \in DOMAIN auth_group /\ auth_group["Choir"] = {"add_user"}
    /\ last.pk = 3

\* ------------------------------------------------------- reference data
\* Unit, Organization and Position rows are named by their name (title and
\* organization for a Position).  parent_unit maps a unit to its parent and
\* organization_unit an organization to its unit; a row that is not in the
\* domain has NULL there.
ParentOf(u) == IF u \in DOMAIN parent_unit THEN parent_unit[u] ELSE NoText

UnitOf(o) ==
    IF o \in DOMAIN organization_unit THEN organization_unit[o] ELSE NoText

\* a function without the keys in gone
Without(f, gone) == [k \in DOMAIN f \ gone |-> f[k]]

\* a function with f[k] = v, k added to the domain when it is new
With(f, k, v) == [j \in DOMAIN f \cup {k} |-> IF j = k THEN v ELSE f[j]]

\* on_delete=SET_NULL for a function of foreign keys: the links to a deleted
\* row are dropped, and so are the links of the deleted rows
SetNull(f, gone) ==
    [k \in {j \in DOMAIN f \ gone : f[j] \notin gone} |-> f[k]]

ReferenceUnits == {"stake", "ward", "branch"}

\* UnitForm: the parent_unit choices are Unit.objects.exclude(id=instance.id),
\* and the field may be left empty
UnitForm_parent_choices(instance) == (store.units \ {instance}) \cup {NoText}

\* UnitForm.save: parent_unit is set to the choice when it is one of the
\* form's choices
UnitForm_save(instance, parent) ==
    IF parent = NoText THEN Without(parent_unit, {instance})
    ELSE IF parent \in UnitForm_parent_choices(instance)
    THEN With(parent_unit, instance, parent)
    ELSE parent_unit

\* UnitCreateView (CreateView.post): the instance has no id yet, so every
\* unit is a choice
UnitCreateView(name, parent) ==
    /\ name \notin store.units
    /\ parent \in store.units \cup {NoText}
    /\ store' = [store EXCEPT !.units = @ \cup {name}]
    /\ parent_unit' = UnitForm_save(name, parent)
    /\ last' = [NoRequest EXCEPT !.op = "unit_create"]
    /\ UNCHANGED <<callings, user, history, imp, auth_group,
                   organization_unit, requests>>

\* UnitUpdateView (UpdateView.post) on the unit u
UnitUpdateView(u, parent) ==
    /\ u \in store.units
    /\ parent_unit' = UnitForm_save(u, parent)
    /\ last' = [NoRequest EXCEPT !.op = "unit_update",
                   !.ok = (parent \in UnitForm_parent_choices(u))]
    /\ UNCHANGED <<callings, user, history, store, imp, auth_group,
                   organization_unit, requests>>

\* Organization.objects.create(name=, unit=): unit may be NULL
Organization_objects_create(name, unit) ==
    /\ name \notin store.organizations
    /\ unit \in store.units \cup {NoText}
    /\ store' = [store EXCEPT !.organizations = @ \cup {name}]
    /\ organization_unit' =
          IF unit = NoText THEN organization_unit
          ELSE With(organization_unit, name, unit)
    /\ last' = [NoRequest EXCEPT !.op = "organization_create"]
    /\ UNCHANGED <<callings, user, history, imp, auth_group, parent_unit,
                   requests>>

\* Position.objects.create(title=, organization=)
Position_objects_create(title, organization) ==
    /\ organization \in store.organizations
    /\ [title |-> title, organization |-> organization] \notin store.positions
    /\ store' = [store EXCEPT !.positions =
                    @ \cup {[title |-> title, organization |-> organization]}]
    /\ last' = [NoRequest EXCEPT !.op = "position_create"]
    /\ UNCHANGED <<callings, user, history, imp, auth_group, parent_unit,
                   organization_unit, requests>>

\* Member.objects.create(..., home_unit=)
Member_objects_create(name, home_unit) ==
    /\ \A m \in store.members : m.name # name
    /\ home_unit \in store.units
    /\ store' = [store EXCEPT !.members =
                    @ \cup {[name |-> name, home_unit |-> home_unit]}]
    /\ last' = [NoRequest EXCEPT !.op = "member_create"]
    /\ UNCHANGED <<callings, user, history, imp, auth_group, parent_unit,
                   organization_unit, requests>>

\* the callings that refer to one of the units, positions or members
CallingsOf(field, rows) ==
    {pk \in Pks : callings[pk][field] \in rows}

\* ProtectedError leaves Model.delete before a row is deleted: the request
\* fails and every table is as it was
ProtectedError(op) ==
    /\ last' = [NoRequest EXCEPT !.op = op, !.ok = FALSE,
                   !.errors = {"ProtectedError"}]
    /\ UNCHANGED <<callings, user, history, store, imp, auth_group,
                   parent_unit, organization_unit, requests>>

\* the rows Model.delete takes away, with the callings' history entries
DeleteRows(op, units, organizations, positions, gone) ==
    /\ callings' = [pk \in DOMAIN callings |->
                       IF pk \in gone THEN Deleted ELSE callings[pk]]
    /\ history' = [i \in DOMAIN history |->
                      IF history[i] # Deleted /\ history[i].calling \in gone
                      THEN Deleted ELSE history[i]]
    /\ store' = [store EXCEPT
                    !.units = @ \ units,
                    !.organizations = @ \ organizations,
                    !.positions = @ \ positions,
                    !.members = {IF m.home_unit \in units
                                 THEN [m EXCEPT !.home_unit = NoText]
                                 ELSE m : m \in @}]
    /\ parent_unit' = SetNull(parent_unit, units)
    /\ organization_unit' = Without(organization_unit, organizations)
    /\ last' = [NoRequest EXCEPT !.op = op]
    /\ UNCHANGED <<user, imp, auth_group, requests>>

\* UnitDeleteView (DeleteView.post), the collector of Unit.delete:
\* Calling.unit and Organization.unit are CASCADE, Position.organization is
\* CASCADE, Calling.position is PROTECT, Unit.parent_unit and
\* Member.home_unit are SET_NULL
UnitDeleteView(u) ==
    LET organizations == {o \in store.organizations : UnitOf(o) = u}
        positions == {p \in store.positions :
                         p.organization \in organizations}
    IN  /\ u \in store.units
        /\ IF CallingsOf("position", positions) # {}
           THEN ProtectedError("unit_delete")
           ELSE DeleteRows("unit_delete", {u}, organizations, positions,
                           CallingsOf("unit", {u}))

\* OrganizationDeleteView (DeleteView.post): the positions of the
\* organization go with it unless a calling refers to one of them
OrganizationDeleteView(o) ==
    LET positions == {p \in store.positions : p.organization = o}
    IN  /\ o \in store.organizations
        /\ IF CallingsOf("position", positions) # {}
           THEN ProtectedError("organization_delete")
           ELSE DeleteRows("organization_delete", {}, {o}, positions, {})

\* PositionDeleteView (DeleteView.post): Calling.position is PROTECT
PositionDeleteView(p) ==
    /\ p \in store.positions
    /\ IF CallingsOf("position", {p}) # {}
       THEN ProtectedError("position_delete")
       ELSE DeleteRows("position_delete", {}, {}, {p}, {})

\* --------------------------------------- the reference data specification
ReferenceFormInputs ==
    { d \in FormData(store.units, store.positions,
                     {m.name : m \in store.members}, {NoDate, 1}) :
        /\ d.calling_status = "ACTIVE" /\ d.date_called = 1
        /\ d.date_sustained = 1 /\ d.date_set_apart = 1
        /\ d.date_released = NoDate }

UnitCreate ==
    \E name \in ReferenceUnits, parent \in ReferenceUnits \cup {NoText} :
        Dispatch("unit_create", 0, UnitCreateView(name, parent))

UnitUpdate ==
    \E u \in ReferenceUnits, parent \in ReferenceUnits \cup {NoText} :
        Dispatch("unit_update", 0, UnitUpdateView(u, parent))

UnitDelete ==
    \E u \in ReferenceUnits : Dispatch("unit_delete", 0, UnitDeleteView(u))

OrganizationCreate ==
    \E unit \in {NoText, "ward"} :
        Organization_objects_create("relief society", unit)

OrganizationDelete ==
    Dispatch("organization_delete", 0,
             OrganizationDeleteView("relief society"))

PositionCreate == Position_objects_create("president", "relief society")

PositionDelete ==
    \E p \in store.positions :
        Dispatch("position_delete", 0, PositionDeleteView(p))

MemberCreate == Member_objects_create("jane", "ward")

ReferenceCallingCreate ==
    \E d \in ReferenceFormInputs :
        Dispatch("create", 0, CallingCreateView(d, MaxReferenceCallings))

NextReference ==
    \/ UnitCreate \/ UnitUpdate \/ UnitDelete
    \/ OrganizationCreate \/ OrganizationDelete
    \/ PositionCreate \/ PositionDelete
    \/ MemberCreate \/ ReferenceCallingCreate

SpecReference == Init /\ [][NextReference]_vars

\* the units, organizations and positions a calling refers to: through
\* Calling.unit, Calling.position and the position's organization
ReferencedUnits == {callings[pk].unit : pk \in Pks}

ReferencedPositions == {callings[pk].position : pk \in Pks}

ReferencedOrganizations == {p.organization : p \in ReferencedPositions}

\* C23: the deletion of a Unit, Organization or Position that a Calling
\* refers to is refused: the row stays, and a refused deletion leaves the
\* Unit, Organization, Position and Calling tables as they were.
C23_ReferencedRowsProtected ==
    [][ /\ \A u \in ReferencedUnits : u \in store'.units
        /\ \A o \in ReferencedOrganizations : o \in store'.organizations
        /\ \A p \in ReferencedPositions : p \in store'.positions
        /\ (last'.op \in {"unit_delete", "organization_delete",
                          "position_delete"} /\ ~last'.ok) =>
              (store' = store /\ callings' = callings) ]_vars

\* the units reached from u by following parent_unit at most n times
RECURSIVE ParentChain(_, _)
ParentChain(u, n) ==
    IF n = 0 \/ ParentOf(u) = NoText THEN {}
    ELSE {ParentOf(u)} \cup ParentChain(ParentOf(u), n - 1)

\* C24: after any sequence of unit creations and updates through the unit
\* form no unit is in its own parent chain: no unit is its own parent and
\* no longer cycle (A -> B -> A) exists.
C24_NoParentCycle ==
    \A u \in store.units : u \notin ParentChain(u, Cardinality(store.units))

UnitWithoutOrganization(row) ==
    /\ Len(row) > 1
    /\ Strip(Cell(row, 0)) # NoText /\ Strip(Cell(row, 1)) = NoText

\* C26: the carried organization is reset when the carried unit changes.  A
\* row with a Unit other than the carried one and a blank Organization cell
\* is not given the carried organization and is skipped; a row that repeats
\* the carried Unit keeps the carried organization.
C26_OrganizationResetOnUnitChange ==
    [][ (/\ imp.phase = "running" /\ imp.i <= Len(imp.file)
         /\ imp'.phase = "running"
         /\ UnitWithoutOrganization(imp.file[imp.i])) =>
          IF Strip(Cell(imp.file[imp.i], 0)) # imp.current_unit
          THEN /\ imp'.current_org = NoText
               /\ imp'.stats.rows_skipped = imp.stats.rows_skipped + 1
               /\ callings' = callings
          ELSE imp'.current_org = imp.current_org ]_vars

\* ------------------------------------- imports among the form operations
\* the rows of the files imported between form operations: a unit, the one
\* organization and position, a holder being called, or one being released
\* and another called
MixedRows ==
    { FullRow(u, "relief society", "president", h[1], h[2]) :
        u \in {"ward", "branch"}, h \in {<<NoText, "jane">>, <<"jane", "john">>} }

MixedFiles == UNION { [1..n -> MixedRows] : n \in 1..MaxMixedRows }

\* python manage.py import_callings <file>, when no import is running; run
\* counts the imports
MixedImport ==
    /\ imp.phase \in {"idle", "done"}
    /\ imp.run < MaxMixedRuns
    /\ \E file \in MixedFiles :
          StartRun("import_callings", file, imp.run + 1, << >>)

\* a CallingForm submission for rows of the store
MixedFormInputs ==
    { d \in FormData(store.units, store.positions,
                     {m.name : m \in store.members}, {NoDate, 1}) :
        /\ d.calling_status = "ACTIVE" /\ d.date_called = 1
        /\ d.date_sustained = NoDate /\ d.date_set_apart = NoDate
        /\ d.date_released = NoDate }

\* CallingUpdateView between two imports
MixedUpdate ==
    /\ imp.phase = "done"
    /\ \E pk \in Pks, d \in MixedFormInputs :
          Dispatch("update", pk, CallingUpdateView(pk, d))

NextMixed == MixedImport \/ ImportRow \/ ImportFinish \/ MixedUpdate

SpecMixed == Init /\ [][NextMixed]_vars

\* the row an import_callings run is about to handle names a holder being
\* released, and the step handles it with a unit, organization and position
ReleasingRow ==
    /\ imp.phase = "running" /\ imp.i <= Len(imp.file)
    /\ imp.cmd = "import_callings" /\ imp'.phase = "running"
    /\ Len(imp.file[imp.i]) > 3
    /\ Strip(Cell(imp.file[imp.i], 3)) # NoText
    /\ Strip(Cell(imp.file[imp.i], 2)) # NoText
    /\ imp'.current_unit # NoText /\ imp'.current_org # NoText

\* the position of the row being handled
RowPosition ==
    [title |-> Strip(Cell(imp.file[imp.i], 2)),
     organization |-> imp'.current_org]

C28_RowAccounting ==
    imp.phase = "done" =>
        /\ imp.stats.rows_processed = Len(imp.file)
        /\ imp.stats.rows_skipped <= imp.stats.rows_processed

\* a calling is marked with a release status by its status field, which the
\* import commands write, or by its calling_status field, which the forms
\* write
MarkedAs(c, mark) == c.status = mark \/ c.calling_status = mark

ChangedFields(op) ==
    CASE op = "update_status" -> {"status"}
      [] op = "release" -> {"calling_status", "date_released", "release_notes"}
      [] op = "lcr_update" -> {"status", "lcr_updated"}

\* a request in flight: the view, the row, the instance as read and changed
InFlight(op, pk, instance) ==
    [phase |-> "read", op |-> op, pk |-> pk, instance |-> instance]

\* calling.save() of the request: every field of the instance is written
Request_save(table, r) ==
    Calling_save(table, requests[r].pk, requests[r].instance)

\* the request has read its row and changed the instance
RequestRead(r, op, pk, instance) ==
    /\ requests[r].phase = "idle"
    /\ pk \in Pks
    /\ requests' = [requests EXCEPT ![r] = InFlight(op, pk, instance)]
    /\ UNCHANGED <<callings, last, user, history, store, imp, auth_group,
                   parent_unit, organization_unit>>

\* CallingUpdateStatusView.update_status up to calling.status = new_status
UpdateStatusRead(r) ==
    \E pk \in Pks, new_status \in STATUS_CHOICES :
        RequestRead(r, "update_status", pk,
                    [callings[pk] EXCEPT !.status = new_status])

\* the release forms submitted while another request runs
ConcurrentReleaseData ==
    {d \in ReleaseData : d.date_released = 1 /\ d.release_notes # NoText}

\* CallingReleaseView up to form_valid's assignments, for a valid form
ReleaseRead(r) ==
    \E pk \in Pks, data \in ConcurrentReleaseData, today \in {1} :
        /\ CallingReleaseForm_clean(data) = {}
        /\ RequestRead(r, "release", pk,
                       CallingReleaseView_form_valid(callings[pk], data,
                                                     today))

\* CallingLCRUpdateView.post up to calling.lcr_updated = True
LCRUpdateRead(r) ==
    \E pk \in Pks :
        RequestRead(r, "lcr_update", pk,
                    [callings[pk] EXCEPT !.status = "LCR_UPDATED",
                                         !.lcr_updated = TRUE])

\* calling.save() and the response
RequestSave(r) ==
    /\ requests[r].phase = "read"
    /\ callings' = Request_save(callings, r)
    /\ requests' = [requests EXCEPT ![r].phase = "saved"]
    /\ last' = [NoRequest EXCEPT !.op = requests[r].op, !.pk = requests[r].pk]
    /\ UNCHANGED <<user, history, store, imp, auth_group, parent_unit,
                   organization_unit>>

\* ------------------------------------------ the concurrent specification
ConcurrentCreate ==
    /\ \A r \in RequestIds : requests[r].phase = "idle"
    /\ \E status \in FixtureStatuses :
          Calling_objects_create("president", "jane", status, NoDate,
                                 MaxConcurrentCallings)

ConcurrentUpdateStatus == \E r \in RequestIds : UpdateStatusRead(r)

ConcurrentRelease == \E r \in RequestIds : ReleaseRead(r)

ConcurrentLCRUpdate == \E r \in RequestIds : LCRUpdateRead(r)

ConcurrentSave == \E r \in RequestIds : RequestSave(r)

NextConcurrent ==
    \/ ConcurrentCreate \/ ConcurrentUpdateStatus \/ ConcurrentRelease
    \/ ConcurrentLCRUpdate \/ ConcurrentSave

SpecConcurrent == Init /\ [][NextConcurrent]_vars

\* C30: when two requests have changed and saved the same calling, the
\* stored row has, for each request, the values of the fields that request
\* assigned and the other did not, whatever the order of their reads and
\* saves.
C30_ConcurrentMutationsBothKept ==
    \A r \in RequestIds, q \in RequestIds :
        (/\ r # q
         /\ requests[r].phase = "saved" /\ requests[q].phase = "saved"
         /\ requests[r].pk = requests[q].pk) =>
            \A f \in ChangedFields(requests[r].op)
                        \ ChangedFields(requests[q].op) :
                callings[requests[r].pk][f] = requests[r].instance[f]

====
